---- MODULE Spec2Model ----
(***************************************************************************)
(* mhb2svg (src/main.py): the conversion of one slide's ink strokes to SVG *)
(* pages (convert, write_svg) and the run that downloads, unpacks and      *)
(* converts an archive inside a temporary directory (__main__).            *)
(*                                                                         *)
(* Coordinates are integers.  aspect_ratio = 1.414 is the rational         *)
(* RatioNum / RatioDen, and a page window that the code computes in        *)
(* floating point is kept exactly, as numerators over a common denominator *)
(* den: its top is y_num / den and its height h_num / den.                 *)
(***************************************************************************)
EXTENDS Integers, Sequences, FiniteSets

\* ------------------------------------------------------------- bounds
\* The largest y coordinate of a point
MaxY == 2
\* StylusPoint elements in one slide of a run, over all its Ink elements
MaxPoints == 2
\* Ink elements in one slide
MaxInks == 2
\* XML files in the Slides directory
MaxFiles == 2

\* ---------------------------------------------------- program constants
\* aspect_ratio = 1.414 = RatioNum / RatioDen
RatioNum == 1414
RatioDen == 1000

\* float('inf'): above every coordinate
Inf == MaxY + 2

\* ------------------------------------------------------------- inputs
\* The points up to height maxy.  Two x coordinates: bounding boxes of width
\* 0 and of width 1
Points(maxy) == {0, 1} \X (0..maxy)

\* The sequences of n elements of S
RECURSIVE SeqsOfLen(_, _)
SeqsOfLen(S, n) ==
    IF n = 0 THEN {<<>>}
    ELSE {Append(s, e) : s \in SeqsOfLen(S, n - 1), e \in S}

\* An Ink element: without a Points child (has_points = FALSE), with a
\* StylusPoint whose text is no number (bad = TRUE), or with the points pts
\* (possibly none).
NoPointsInk == [has_points |-> FALSE, bad |-> FALSE, pts |-> <<>>]
BadInk == [has_points |-> TRUE, bad |-> TRUE, pts |-> <<>>]
GoodInks(n, maxy) ==
    {[has_points |-> TRUE, bad |-> FALSE, pts |-> p] : p \in SeqsOfLen(Points(maxy), n)}

\* The Ink elements that hold n points
InksWith(n, maxy) ==
    IF n = 0 THEN {NoPointsInk, BadInk} \cup GoodInks(0, maxy) ELSE GoodInks(n, maxy)

\* The documents of up to n Ink elements holding up to budget points, none
\* higher than maxy
RECURSIVE SlidesOf(_, _, _)
SlidesOf(n, budget, maxy) ==
    IF n = 0 THEN {<<>>}
    ELSE {<<>>} \cup UNION {{<<ink>> \o rest : ink \in InksWith(k, maxy),
                                               rest \in SlidesOf(n - 1, budget - k, maxy)} :
                                k \in 0..budget}

\* The slides of an archive
Slides == SlidesOf(MaxInks, MaxPoints, MaxY)


\* ------------------------------------------------------------ write_svg
\* The for loop of write_svg from stroke i on: the strokes whose first point
\* lies strictly inside the window, in order; strokes[i]["points"][0] of a
\* stroke without points raises IndexError and ends the loop.
RECURSIVE Polylines(_, _, _, _, _, _)
Polylines(strokes, i, y_num, h_num, den, acc) ==
    IF i > Len(strokes) THEN [lines |-> acc, fault |-> "none"]
    ELSE IF Len(strokes[i].points) = 0 THEN [lines |-> acc, fault |-> "IndexError"]
    ELSE LET y0 == strokes[i].points[1][2] * den
         IN  Polylines(strokes, i + 1, y_num, h_num, den,
                       IF y_num < y0 /\ y0 < y_num + h_num
                       THEN Append(acc, strokes[i]) ELSE acc)

\* write_svg: the file it opens and what it wrote to it; closed is whether
\* the final </svg> line was written.  name is <<>> for <stem>.svg and <<i>>
\* for <stem>-<i>.svg.
WriteSvg(min_x, y_num, width, h_num, den, strokes, name) ==
    LET body == Polylines(strokes, 1, y_num, h_num, den, <<>>)
    IN  [file |-> [name |-> name, min_x |-> min_x, y_num |-> y_num, width |-> width,
                   h_num |-> h_num, den |-> den, polylines |-> body.lines,
                   closed |-> body.fault = "none"],
         fault |-> body.fault]

\* -------------------------------------------------------------- convert
Seed == [strokes |-> <<>>, min_x |-> Inf, min_y |-> Inf, max_x |-> -Inf, max_y |-> -Inf,
         fault |-> "none"]

\* The inner loop over the StylusPoint elements: the running bounding box
RECURSIVE AddPoints(_, _, _)
AddPoints(pts, j, acc) ==
    IF j > Len(pts) THEN acc
    ELSE LET x == pts[j][1]
             y == pts[j][2]
         IN  AddPoints(pts, j + 1,
                 [acc EXCEPT !.min_x = IF x < @ THEN x ELSE @,
                             !.max_x = IF x > @ THEN x ELSE @,
                             !.min_y = IF y < @ THEN y ELSE @,
                             !.max_y = IF y > @ THEN y ELSE @])

\* The loop over the Ink elements from element i on.  A stroke keeps the
\* position ink of its element, which stands for its identity in the output.
RECURSIVE ParseInks(_, _, _)
ParseInks(inks, i, acc) ==
    IF i > Len(inks) THEN acc
    ELSE IF ~inks[i].has_points THEN ParseInks(inks, i + 1, acc)
    ELSE IF inks[i].bad THEN [acc EXCEPT !.fault = "ValueError(float)"]
    ELSE LET box == AddPoints(inks[i].pts, 1, acc)
         IN  ParseInks(inks, i + 1,
                 [box EXCEPT !.strokes = Append(@, [points |-> inks[i].pts, ink |-> i])])

\* The loop over the pages from page i on; a fault in write_svg ends it.
RECURSIVE WritePages(_, _, _, _, _)
WritePages(p, pages, i, files, strokes) ==
    IF i > pages THEN [files |-> files, fault |-> "none"]
    ELSE LET width == p.max_x - p.min_x
             height == p.max_y - p.min_y
             den == RatioDen * pages
             w == WriteSvg(p.min_x,
                           p.min_y * den + i * (height * RatioDen - RatioNum * width),
                           width, RatioNum * width * pages, den, strokes, <<i>>)
         IN  IF w.fault # "none"
             THEN [files |-> Append(files, w.file), fault |-> w.fault]
             ELSE WritePages(p, pages, i + 1, Append(files, w.file), strokes)

\* convert: fault is the exception it raises ("none": it returns ret), files
\* the files it opened, strokes and box what the parse loop accumulated.
Convert(inks, paging) ==
    LET p == ParseInks(inks, 1, Seed)
        box == <<p.min_x, p.min_y, p.max_x, p.max_y>>
        width == p.max_x - p.min_x
        height == p.max_y - p.min_y
        out(fault, files, ret) ==
            [fault |-> fault, files |-> files, ret |-> ret, strokes |-> p.strokes, box |-> box]
    IN  IF p.fault # "none" THEN out(p.fault, <<>>, 0)
        \* -inf / -inf is NaN, and int(NaN) raises ValueError
        ELSE IF p.min_x = Inf THEN out("ValueError(NaN)", <<>>, 0)
        ELSE IF width = 0 THEN out("ZeroDivisionError", <<>>, 0)
        ELSE LET pages == (height * RatioDen) \div (width * RatioNum)
             IN  IF pages = 0 \/ ~paging
                 THEN LET w == WriteSvg(p.min_x, p.min_y, width, height, 1, p.strokes, <<>>)
                      IN  out(w.fault, <<w.file>>, 0)
                 ELSE LET w == WritePages(p, pages, 0, <<>>, p.strokes)
                      IN  out(w.fault, w.files, pages)

NoResult == [fault |-> "none", files |-> <<>>, ret |-> 0, strokes |-> <<>>,
             box |-> <<Inf, Inf, -Inf, -Inf>>]

\* What the run keeps of one convert call: the exception, the return value
\* and the number of files opened.
Outcome(r) == [fault |-> r.fault, ret |-> r.ret, nfiles |-> Len(r.files)]

OutcomesPaged == {Outcome(Convert(s, TRUE)) : s \in Slides}
OutcomesUnpaged == {Outcome(Convert(s, FALSE)) : s \in Slides}

\* ---------------------------------------------------------------- state
\* pc       where the run (or the single convert call) stands
\* args     parse_args: link (-l given, else -f), s_id (the link carries the
\*          s_id parameter), paging (-p)
\* slide    the Ink elements of the document given to convert
\* result   what that convert call did
\* tmp      the TemporaryDirectory exists
\* sid      extract_sid has returned a session id
\* requests urlopen calls made so far
\* layout   what process_slides found: "no_dir", "no_xml", "xml"
\* warned   process_slides printed one of its two warnings
\* todo     XML files the loop of process_slides has still to convert
\* slides   the value process_slides builds and returns (none: it returned None)
\* svgs     SVG files opened so far
\* fault    the exception that ended the run
VARIABLES pc, args, slide, result, tmp, sid, requests, layout, warned, todo, slides, svgs, fault

vars == <<pc, args, slide, result, tmp, sid, requests, layout, warned, todo, slides, svgs, fault>>

runVars == <<tmp, sid, requests, layout, warned, todo, slides, svgs, fault>>

Unset == [none |-> FALSE, list |-> <<>>]

Args == {a \in [link : BOOLEAN, s_id : BOOLEAN, paging : BOOLEAN] : a.s_id => a.link}

InitRun ==
    /\ tmp = FALSE
    /\ sid = FALSE
    /\ requests = 0
    /\ layout = "unknown"
    /\ warned = FALSE
    /\ todo = 0
    /\ slides = Unset
    /\ svgs = 0
    /\ fault = "none"

\* ------------------------------------------------- one call of convert
InitConvert ==
    /\ pc = "call"
    /\ args \in {a \in Args : ~a.link}
    \* one more point and one more row than in a run: a stroke can start
    \* strictly between two others, and a slide can take three pages
    /\ slide \in SlidesOf(MaxInks, MaxPoints + 1, MaxY + 1)
    /\ result = NoResult
    /\ InitRun

CallConvert ==
    /\ pc = "call"
    /\ result' = Convert(slide, args.paging)
    /\ pc' = IF result'.fault = "none" THEN "returned" ELSE "raised"
    /\ UNCHANGED <<args, slide, runVars>>

NextConvert == CallConvert

SpecConvert == InitConvert /\ [][NextConvert]_vars

\* -------------------------------------------------------------- the run
Init ==
    /\ pc = "start"
    /\ args \in Args
    /\ slide = <<>>
    /\ result = NoResult
    /\ InitRun

\* Raise with the directory removed only at the end of the block, as manual
\* cleanup after the last statement would do
RaiseKeepsTmp(e) ==
    /\ pc' = "failed"
    /\ fault' = e
    /\ tmp' = tmp

\* An exception leaves the with block, which removes the directory, and
\* ends the run.
Raise(e) ==
    /\ pc' = "failed"
    /\ fault' = e
    /\ tmp' = FALSE

\* with tempfile.TemporaryDirectory() as tmp
EnterTmp ==
    /\ pc = "start"
    /\ tmp' = TRUE
    /\ pc' = IF args.link THEN "extract_sid" ELSE "extract_archive"
    /\ UNCHANGED <<args, slide, result, sid, requests, layout, warned, todo, slides, svgs, fault>>

\* extract_sid without its check: a link without s_id goes on with no id
ExtractSidUnchecked ==
    /\ pc = "extract_sid"
    /\ sid' = args.s_id
    /\ pc' = "fetch_file_url"
    /\ UNCHANGED <<args, slide, result, tmp, fault, requests, layout, warned, todo, slides, svgs>>

ExtractSid ==
    /\ pc = "extract_sid"
    /\ IF ~args.s_id
       THEN Raise("MissingSid") /\ UNCHANGED sid
       ELSE sid' = TRUE /\ pc' = "fetch_file_url" /\ UNCHANGED <<tmp, fault>>
    /\ UNCHANGED <<args, slide, result, requests, layout, warned, todo, slides, svgs>>

\* One GET; the host may be unreachable (URLError), the body no JSON
\* (JSONDecodeError), the array empty or without url (ValueError).
FetchFileUrl ==
    /\ pc = "fetch_file_url"
    /\ requests' = requests + 1
    /\ \E answer \in {"ok", "URLError", "JSONDecodeError", "NoFileUrl"} :
          IF answer = "ok"
          THEN pc' = "download_archive" /\ UNCHANGED <<tmp, fault>>
          ELSE Raise(answer)
    /\ UNCHANGED <<args, slide, result, sid, layout, warned, todo, slides, svgs>>

DownloadArchive ==
    /\ pc = "download_archive"
    /\ requests' = requests + 1
    /\ \E ok \in BOOLEAN :
          IF ok
          THEN pc' = "extract_archive" /\ UNCHANGED <<tmp, fault>>
          ELSE Raise("DownloadFailed")
    /\ UNCHANGED <<args, slide, result, sid, layout, warned, todo, slides, svgs>>

\* BadZipFile becomes RuntimeError; a path that does not exist raises
\* FileNotFoundError
ExtractArchive ==
    /\ pc = "extract_archive"
    /\ \E found \in {"zip", "InvalidArchive", "FileNotFoundError"} :
          IF found = "zip"
          THEN pc' = "parse_metadata" /\ UNCHANGED <<tmp, fault>>
          ELSE Raise(found)
    /\ UNCHANGED <<args, slide, result, sid, requests, layout, warned, todo, slides, svgs>>

ParseMetadata ==
    /\ pc = "parse_metadata"
    /\ \E found \in {"xml", "FileNotFoundError", "ParseError"} :
          IF found = "xml"
          THEN pc' = "process_slides" /\ UNCHANGED <<tmp, fault>>
          ELSE Raise(found)
    /\ UNCHANGED <<args, slide, result, sid, requests, layout, warned, todo, slides, svgs>>

\* process_slides up to its loop: without a Slides directory it warns and
\* returns (None); without XML files it warns and goes on.
ProcessSlides ==
    /\ pc = "process_slides"
    /\ \E exists \in BOOLEAN, n \in 0..MaxFiles :
          IF ~exists
          THEN /\ layout' = "no_dir"
               /\ warned' = TRUE
               /\ slides' = [none |-> TRUE, list |-> <<>>]
               /\ todo' = 0
               /\ pc' = "print"
          ELSE /\ layout' = IF n = 0 THEN "no_xml" ELSE "xml"
               /\ warned' = (n = 0)
               /\ slides' = [none |-> FALSE, list |-> <<>>]
               /\ todo' = n
               /\ pc' = "convert"
    /\ UNCHANGED <<args, slide, result, tmp, sid, requests, svgs, fault>>

\* One turn of the loop: convert on the next XML file
ConvertSlide ==
    /\ pc = "convert"
    /\ todo > 0
    /\ \E o \in (IF args.paging THEN OutcomesPaged ELSE OutcomesUnpaged) :
          /\ svgs' = svgs + o.nfiles
          /\ IF o.fault # "none"
             THEN Raise(o.fault) /\ UNCHANGED <<todo, slides>>
             ELSE /\ slides' = [slides EXCEPT !.list = Append(@, o.ret)]
                  /\ todo' = todo - 1
                  /\ UNCHANGED <<pc, tmp, fault>>
    /\ UNCHANGED <<args, slide, result, sid, requests, layout, warned>>

\* return slides
ProcessSlidesReturn ==
    /\ pc = "convert"
    /\ todo = 0
    /\ pc' = "print"
    /\ UNCHANGED <<args, slide, result, tmp, sid, requests, layout, warned, todo, slides, svgs, fault>>

\* print('Generated ' + ', '.join(slides)), then the end of the with block;
\* join(None) raises TypeError.
PrintGenerated ==
    /\ pc = "print"
    /\ IF slides.none
       THEN Raise("TypeError")
       ELSE pc' = "done" /\ tmp' = FALSE /\ UNCHANGED fault
    /\ UNCHANGED <<args, slide, result, sid, requests, layout, warned, todo, slides, svgs>>

Next ==
    \/ EnterTmp
    \/ ExtractSid
    \/ FetchFileUrl
    \/ DownloadArchive
    \/ ExtractArchive
    \/ ParseMetadata
    \/ ProcessSlides
    \/ ConvertSlide
    \/ ProcessSlidesReturn
    \/ PrintGenerated

Spec == Init /\ [][Next]_vars

Ended == pc \in {"done", "failed"}

\* ----------------------------- the slide, read directly from its points
WellFormed(inks) == \A i \in 1..Len(inks) : ~inks[i].bad

PointsOf(inks) == UNION {{inks[i].pts[j] : j \in 1..Len(inks[i].pts)} : i \in 1..Len(inks)}

NonEmptyInks(inks) == {i \in 1..Len(inks) : Len(inks[i].pts) > 0}

Lo(S) == CHOOSE m \in S : \A n \in S : m <= n
Hi(S) == CHOOSE m \in S : \A n \in S : m >= n

MinXOf(inks) == Lo({q[1] : q \in PointsOf(inks)})
MaxXOf(inks) == Hi({q[1] : q \in PointsOf(inks)})
MinYOf(inks) == Lo({q[2] : q \in PointsOf(inks)})
MaxYOf(inks) == Hi({q[2] : q \in PointsOf(inks)})
WidthOf(inks) == MaxXOf(inks) - MinXOf(inks)
HeightOf(inks) == MaxYOf(inks) - MinYOf(inks)

\* floor(height / (width * aspect_ratio)), for width > 0
PageCountOf(inks) ==
    CHOOSE k \in 0..(HeightOf(inks) * RatioDen) :
        /\ k * RatioNum * WidthOf(inks) <= HeightOf(inks) * RatioDen
        /\ HeightOf(inks) * RatioDen < (k + 1) * RatioNum * WidthOf(inks)

Called == pc \in {"returned", "raised"}

\* The file is the unpaginated render: <stem>.svg over the full bounding box
FullBox(f, inks) ==
    /\ f.name = <<>>
    /\ f.min_x = MinXOf(inks)
    /\ f.width = WidthOf(inks)
    /\ f.y_num = MinYOf(inks) * f.den
    /\ f.h_num = HeightOf(inks) * f.den

\* The inks without those that have no points
RECURSIVE WithoutEmpty(_)
WithoutEmpty(inks) ==
    IF inks = <<>> THEN <<>>
    ELSE IF Len(Head(inks).pts) = 0 /\ ~Head(inks).bad THEN WithoutEmpty(Tail(inks))
    ELSE <<Head(inks)>> \o WithoutEmpty(Tail(inks))

\* A file as it reads: its name, its window and its polylines' points
Markup(f) ==
    [name |-> f.name, min_x |-> f.min_x, y_num |-> f.y_num, width |-> f.width,
     h_num |-> f.h_num, den |-> f.den, closed |-> f.closed,
     lines |-> [j \in 1..Len(f.polylines) |-> f.polylines[j].points]]

\* ---------------------------------------------------------------- claims
\* C1: for a slide with at least one point, if paging is disabled or
\* floor(height / (width * aspect_ratio)) = 0, convert writes exactly one
\* file, <stem>.svg, over the full bounding box, and no <stem>-<i>.svg.
C1_OneFullPage ==
    (/\ Called
     /\ WellFormed(slide)
     /\ PointsOf(slide) # {}
     /\ \/ ~args.paging
        \/ WidthOf(slide) > 0 /\ PageCountOf(slide) = 0)
    => /\ result.fault = "none"
       /\ Len(result.files) = 1
       /\ FullBox(result.files[1], slide)

\* C2: with paging enabled and k = floor(height / (width * aspect_ratio)) >= 1,
\* convert writes exactly the k+1 files <stem>-0.svg .. <stem>-k.svg, each of
\* the full width and of height aspect_ratio * width, page i starting at
\* min_y + i * dh with dh = (height - aspect_ratio * width) / k; page 0 starts
\* at min_y, page k ends at max_y, and consecutive pages leave no gap.
C2_PagesCoverHeight ==
    (/\ Called
     /\ WellFormed(slide)
     /\ PointsOf(slide) # {}
     /\ args.paging
     /\ WidthOf(slide) > 0
     /\ PageCountOf(slide) >= 1)
    => LET k == PageCountOf(slide)
           w == WidthOf(slide)
           h == HeightOf(slide)
           f == result.files
       IN  /\ result.fault = "none"
           /\ Len(f) = k + 1
           /\ \A i \in 0..k :
                 /\ f[i + 1].name = <<i>>
                 /\ f[i + 1].min_x = MinXOf(slide)
                 /\ f[i + 1].width = w
                 /\ f[i + 1].h_num * RatioDen = RatioNum * w * f[i + 1].den
                 /\ f[i + 1].y_num * k * RatioDen
                      = f[i + 1].den * (MinYOf(slide) * k * RatioDen + i * (h * RatioDen - RatioNum * w))
           /\ f[1].y_num = MinYOf(slide) * f[1].den
           /\ f[k + 1].y_num + f[k + 1].h_num = MaxYOf(slide) * f[k + 1].den
           /\ \A i \in 1..k :
                 f[i + 1].y_num * f[i].den <= (f[i].y_num + f[i].h_num) * f[i + 1].den

\* C3: the unpaginated render holds exactly one polyline per Ink element with
\* at least one point, those whose first point lies on the top or bottom edge
\* of the bounding box included.
C3_EveryStrokeDrawn ==
    (/\ pc = "returned"
     /\ Len(result.files) = 1
     /\ result.files[1].name = <<>>)
    => LET lines == result.files[1].polylines
       IN  /\ {lines[j].ink : j \in 1..Len(lines)} = NonEmptyInks(slide)
           /\ Len(lines) = Cardinality(NonEmptyInks(slide))

\* C4: in a paginated render every stroke of the slide is in the output of
\* exactly one page.
C4_OnePagePerStroke ==
    (pc = "returned" /\ result.ret >= 1)
    => \A s \in 1..Len(result.strokes) :
          Cardinality({n \in 1..Len(result.files) :
                          \E j \in 1..Len(result.files[n].polylines) :
                              result.files[n].polylines[j] = result.strokes[s]}) = 1

\* C5: an Ink element without points (no Points element, or Points without a
\* StylusPoint) is skipped: the bounding box and the output are those of the
\* slide without it, and convert completes wherever it does without it.
C5_EmptyInkSkipped ==
    (Called /\ WellFormed(slide))
    => LET clean == Convert(WithoutEmpty(slide), args.paging)
       IN  /\ result.box = clean.box
           /\ clean.fault = "none"
              => /\ result.fault = "none"
                 /\ Len(result.files) = Len(clean.files)
                 /\ \A n \in 1..Len(clean.files) :
                       Markup(result.files[n]) = Markup(clean.files[n])

\* C6: a slide whose bounding box has width 0 is the unpaginated case: convert
\* does not fault and writes exactly one <stem>.svg, with or without paging.
C6_ZeroWidthUnpaged ==
    (/\ Called
     /\ WellFormed(slide)
     /\ PointsOf(slide) # {}
     /\ WidthOf(slide) = 0)
    => /\ result.fault = "none"
       /\ Len(result.files) = 1
       /\ result.files[1].name = <<>>

\* C7: a slide where no Ink element yields a point does not crash convert,
\* which writes an SVG without polylines.
C7_NoStrokesNoCrash ==
    (/\ Called
     /\ WellFormed(slide)
     /\ PointsOf(slide) = {})
    => /\ result.fault = "none"
       /\ Len(result.files) = 1
       /\ result.files[1].closed
       /\ result.files[1].polylines = <<>>

\* C8: without a Slides directory, or without an XML file in it, a warning is
\* printed and the run ends normally after its last print, with no SVG file
\* and no error.
C8_MissingSlidesNotFatal ==
    layout \in {"no_dir", "no_xml"}
    => /\ warned
       /\ svgs = 0
       /\ Ended => (pc = "done" /\ fault = "none")

\* C9: a run with a link without s_id ends with the input error and makes
\* no request; in every run fetch_file_url and download_archive are reached
\* only after extract_sid has returned a session id.
C9_NoRequestWithoutSid ==
    /\ (requests > 0 \/ pc \in {"fetch_file_url", "download_archive"}) => sid
    /\ (Ended /\ args.link /\ ~args.s_id) => (fault = "MissingSid" /\ requests = 0)

\* C9 witness: a run with a link without s_id has ended
C9_Witness ==
    pc = "failed" /\ args.link /\ ~args.s_id /\ fault = "MissingSid" /\ tmp = FALSE

\* C10: the scratch directory exists from the start of the with block on and
\* is removed when the run ends, on every exit path.
C10_ScratchRemoved ==
    /\ Ended => ~tmp
    /\ pc \notin {"start", "done", "failed"} => tmp

\* C10 witness: a run that a fault during conversion ended, after a file was
\* written
C10_Witness ==
    pc = "failed" /\ fault = "IndexError" /\ svgs > 0 /\ ~tmp
====
